---- MODULE Spec2Model ----
(***************************************************************************)
(* Model of enso.graphics.font (src/enso/graphics/font.py): the Font       *)
(* flyweight pool, font-name resolution with its fallback chain, the       *)
(* process-wide log-once flag, the shared cairo context and the per-font   *)
(* glyph cache.  enso.config supplies the optional FONT_NAME mapping.      *)
(*                                                                         *)
(* Python values are modelled as strings and integers; None is the string  *)
(* "None".  Configured font identifiers are non-empty strings.             *)
(***************************************************************************)
EXTENDS Integers, Sequences, FiniteSets, TLC

\* ------------------------------------------------------------------ bounds
\* Number of calls in one behaviour: Font.get, getGlyph, getKerningDistance,
\* a caller's loadInto, and changes of the configuration or of the platform
\* registry.
MaxSteps == 3

\* ------------------------------------------------------------- input sets
None == "None"
\* Font identifiers a user may put into config.FONT_NAME.
ConfigNames == {"Consolas", "Georgia"}
\* Arguments of Font.get: pairs of requests that differ in the name only
\* (1st, 2nd), in the italic flag only (1st, 3rd) and in the size only
\* (3rd, 4th).
Requests ==
  {<<"ignored", 14, FALSE>>, <<"other", 14, FALSE>>, <<"ignored", 14, TRUE>>,
   <<"ignored", 12, TRUE>>}
Chars == {"a", "e-acute"}
Platforms == {"win32", "linux2"}

\* Shapes of enso.config: the FONT_NAME attribute is absent (has = FALSE),
\* or a dict holding any subset of the keys "normal" and "italic".
NoFontName == [has |-> FALSE, map |-> [k \in {} |-> None]]
\* The "normal" entry, when present, names Consolas and the "italic" entry
\* Georgia or Consolas.
Mappings ==
  {m \in UNION {[ks -> ConfigNames] : ks \in SUBSET {"normal", "italic"}} :
     "normal" \in DOMAIN m => m["normal"] = "Consolas"}
Configs == {NoFontName} \cup {[has |-> TRUE, map |-> m] : m \in Mappings}

\* hasattr(config, "FONT_NAME") and config.FONT_NAME.has_key(k)
has_key(cfg, k) == k \in DOMAIN cfg.map

\* Python truthiness of a font name: None and "" are false.
Truthy(x) == x # None /\ x # ""

\* -------------------------------------------------------- platform services
\* Path the platform registry reports for an installed font identifier.
FilePathOf(font_id) ==
  IF font_id = "Consolas" THEN "C:/fonts/consola.ttf" ELSE "C:/fonts/georgia.ttf"

\* FontRegistry.get().get_font_detail(font_id): a detail record with the
\* file path, or None (found = FALSE) when the registry has no entry.
get_font_detail(font_id, reg) ==
  IF font_id \in reg
  THEN [found |-> TRUE, filepath |-> FilePathOf(font_id)]
  ELSE [found |-> FALSE, filepath |-> None]

\* os.path.join(fonts_dir, "arial.ttf") with the shell's fonts directory.
ArialPath == "C:/fonts/arial.ttf"

\* cairo's font_extents() for the font selected into a context: a fixed but
\* uninterpreted function of the selected face, slant and size.
font_extents(ctx) ==
  [ascent      |-> <<"ascent", ctx.face, ctx.slant, ctx.size>>,
   descent     |-> <<"descent", ctx.face, ctx.slant, ctx.size>>,
   height      |-> <<"height", ctx.face, ctx.slant, ctx.size>>,
   maxXAdvance |-> <<"maxXAdvance", ctx.face, ctx.slant, ctx.size>>,
   maxYAdvance |-> <<"maxYAdvance", ctx.face, ctx.slant, ctx.size>>]

\* cairo's text_extents(): the (xBearing, yBearing, width, height, xAdvance,
\* yAdvance) the backend may answer for a character: a glyph with a
\* descender and a negative bearing, and the all-zero answer for a character
\* it cannot shape.
BackendExtents ==
  {<<-1, -5, 6, 8, 6, 0>>, <<0, 0, 0, 0, 0, 0>>}

\* ------------------------------------------------------------------- state
VARIABLES
  platform,           \* sys.platform
  config,             \* enso.config: presence and contents of FONT_NAME
  registry,           \* font identifiers the platform registry knows
  used_font_logged,   \* module global _used_font_logged
  Font_cairoContext,  \* class attribute Font._cairoContext (0 is None)
  contexts,           \* cairo contexts made by Font.__init__, by id
  clientContext,      \* a cairo context owned by a caller of loadInto
  fontCache,          \* cache of the memoized Font.get: arguments -> Font id
  fonts,              \* Font objects whose construction completed, by id
  glyphCache,         \* cache of the memoized getGlyph: <<font, char>> -> id
  glyphs,             \* FontGlyph objects, by id
  log,                \* per message: times it was handed to logging
  \* History of the run, read by the properties only.
  steps,              \* calls so far (see MaxSteps)
  epoch,              \* changes to config or registry so far
  resolutions,        \* per request: runs of the font-name resolution
  failures,           \* Font.get calls that ended in an exception
  returned,           \* <<request, Font id>> of every Font.get that returned
  glyphReturned,      \* <<font, char, glyph id>> of every getGlyph return
  extentQueries,      \* per <<font, char>>: text_extents queries
  lastHit,            \* the latest call that constructed nothing: its kind,
                      \* and the value a getKerningDistance returned
  missSeen,           \* some registry lookup found no entry
  clientFont,         \* the Font last loaded into clientContext (0: none)
  registryQueried,    \* get_font_detail of the registry has been called
  \* Threads that construct Fonts without synchronization.
  threads,            \* per thread: its position in Font.__init__, its self
  overlapped          \* a construction began while another was under way

vars == <<platform, config, registry, used_font_logged, Font_cairoContext,
          contexts, clientContext, fontCache, fonts, glyphCache, glyphs, log,
          steps, epoch, resolutions, failures, returned, glyphReturned,
          extentQueries, lastHit, missSeen, clientFont,
          registryQueried, threads, overlapped>>

\* ---------------------------------------------------------- cairo context
\* cairo.Context(dummySurface): default font state, empty save stack.
NewContext ==
  [face |-> "cairo-default", slant |-> "NORMAL", size |-> 10, stack |-> <<>>]

GState(ctx) == [face |-> ctx.face, slant |-> ctx.slant, size |-> ctx.size]

\* cairoContext.save()
save(ctx) == [ctx EXCEPT !.stack = Append(ctx.stack, GState(ctx))]

\* cairoContext.restore()
restore(ctx) ==
  LET n == Len(ctx.stack)
      g == ctx.stack[n]
  IN [face |-> g.face, slant |-> g.slant, size |-> g.size,
      stack |-> SubSeq(ctx.stack, 1, n - 1)]

\* cairoContext.select_font_face(face, slant, FONT_WEIGHT_NORMAL)
select_font_face(ctx, face, slant) == [ctx EXCEPT !.face = face, !.slant = slant]

\* cairoContext.set_font_size(size)
set_font_size(ctx, size) == [ctx EXCEPT !.size = size]

\* ------------------------------------------------------ font-name resolution
\* What one call has done so far besides its result: the log-once flag, the
\* messages logged, the identifiers looked up in the registry, and whether
\* a lookup found nothing.
Effects(flag) ==
  [flag |-> flag, msgs |-> <<>>, lookups |-> <<>>, missed |-> FALSE]

logging(st, msg) == [st EXCEPT !.msgs = Append(st.msgs, msg)]

\* logging.info / logging.error under "if not _used_font_logged:", and the
\* assignment _used_font_logged = True.
log_once(st, msg) ==
  IF ~st.flag THEN [logging(st, msg) EXCEPT !.flag = TRUE] ELSE st

\* The registry lookup of get_font_name, as the properties see it.
looked_up(st, font_id) ==
  [st EXCEPT !.lookups = Append(st.lookups, font_id),
             !.missed = st.missed \/ ~get_font_detail(font_id, registry).found]

\* A font name found without an exception, nothing found, and Python's
\* KeyError for config.FONT_NAME[k] with k missing.
Found(font_name, st) == [raised |-> FALSE, font_name |-> font_name, st |-> st]
Unresolved(st) == [raised |-> FALSE, font_name |-> None, st |-> st]
KeyError(st) == [raised |-> TRUE, font_name |-> None, st |-> st]

\* The nested get_font_name(font_id) of loadInto.
get_font_name(font_id, st) ==
  IF get_font_detail(font_id, registry).found
  THEN Found(get_font_detail(font_id, registry).filepath,
             log_once(looked_up(st, font_id), "info: Font used"))
  ELSE Unresolved(log_once(looked_up(st, font_id),
                           "error: Specified font was not found"))

\* logging.error("There is no FONT_NAME setting in enso.config.")
check_setting(st) ==
  IF ~config.has
  THEN logging(st, "error: There is no FONT_NAME setting") ELSE st

\* win32, italic: 'if config.FONT_NAME.has_key("italic"): font_name =
\* get_font_name(config.FONT_NAME["italic"])'
italic_entry_win(st) ==
  IF has_key(config, "italic")
  THEN get_font_name(config.map["italic"], st) ELSE Unresolved(st)

\* win32, italic: 'if not font_name: font_name =
\* get_font_name(config.FONT_NAME["normal"])'
normal_fallback_win(it) ==
  IF ~Truthy(it.font_name)
  THEN IF has_key(config, "normal")
       THEN get_font_name(config.map["normal"], it.st) ELSE KeyError(it.st)
  ELSE it

\* win32, not italic: the "normal" entry when it is there.
normal_entry_win(st) ==
  IF config.has /\ has_key(config, "normal")
  THEN get_font_name(config.map["normal"], st) ELSE Unresolved(st)

\* A variant of search_config_win in which a request that is not italic
\* tries the "italic" entry before the "normal" one.
search_config_win_italic_first(isItalic, st) ==
  IF isItalic \/ has_key(config, "normal")
  THEN IF config.has
       THEN normal_fallback_win(italic_entry_win(st)) ELSE Unresolved(st)
  ELSE italic_entry_win(st)

\* The "Search for suitable font in config" block of the win32 branch.
search_config_win(isItalic, st) ==
  IF isItalic
  THEN IF config.has
       THEN normal_fallback_win(italic_entry_win(st)) ELSE Unresolved(st)
  ELSE normal_entry_win(st)

\* Other platforms, italic: 'if config.FONT_NAME.has_key("italic"):
\* font_name = config.FONT_NAME["italic"]'
italic_entry_other(st) ==
  IF has_key(config, "italic")
  THEN Found(config.map["italic"], st) ELSE Unresolved(st)

\* Other platforms, italic: 'if not font_name: font_name =
\* config.FONT_NAME["normal"]'
normal_fallback_other(it) ==
  IF ~Truthy(it.font_name)
  THEN IF has_key(config, "normal")
       THEN Found(config.map["normal"], it.st) ELSE KeyError(it.st)
  ELSE it

\* Other platforms, not italic: the "normal" entry when it is there.
normal_entry_other(st) ==
  IF config.has /\ has_key(config, "normal")
  THEN Found(config.map["normal"], st) ELSE Unresolved(st)

\* A variant of search_config_other in which an italic request without an
\* "italic" entry skips the "normal" entry.
search_config_other_no_fallback(isItalic, st) ==
  IF isItalic
  THEN IF config.has THEN italic_entry_other(st) ELSE Unresolved(st)
  ELSE normal_entry_other(st)

\* The "Search for suitable font in config" block of the other platforms:
\* the configured identifier is used as it is.
search_config_other(isItalic, st) ==
  IF isItalic
  THEN IF config.has
       THEN normal_fallback_other(italic_entry_other(st)) ELSE Unresolved(st)
  ELSE normal_entry_other(st)

\* The terminal default of each branch.
default_win(r) ==
  IF ~Truthy(r.font_name)
  THEN Found(ArialPath, logging(r.st, "warning: Using default 'Arial.ttf' font"))
  ELSE r

default_other(r) ==
  IF ~Truthy(r.font_name) THEN Found("Helvetica", r.st) ELSE r

\* A variant of is_win that takes the registry-backed branch everywhere.
is_win_everywhere == TRUE

\* sys.platform.startswith("win")
is_win == platform = "win32"

\* The search of the branch the platform selects, and its terminal default
\* unless the search raised.
search_config(isItalic, st) ==
  IF is_win
  THEN search_config_win(isItalic, st) ELSE search_config_other(isItalic, st)

with_default(r) ==
  IF r.raised THEN r ELSE IF is_win THEN default_win(r) ELSE default_other(r)

\* A variant of needs_resolution that resolves on every loadInto.
always_resolve(self) == TRUE

\* "if not self.font_name:", the guard of the resolution ("Set it once").
needs_resolution(self) == ~Truthy(self.font_name)

\* A variant of resolve that takes the requested family name "other" as
\* the identifier.
resolve_by_name(self, st) ==
  IF ~needs_resolution(self)
  THEN Found(self.font_name, st)
  ELSE IF self.name = "other"
       THEN Found(self.name, st)
       ELSE with_default(search_config(self.isItalic, check_setting(st)))

\* The resolution part of loadInto: the value self.font_name has afterwards,
\* or the exception that left it unset.
resolve(self, st) ==
  IF ~needs_resolution(self)
  THEN Found(self.font_name, st)
  ELSE with_default(search_config(self.isItalic, check_setting(st)))

\* "self.font_name = font_name"
assign_font_name(self, font_name) == [self EXCEPT !.font_name = font_name]

\* The end of loadInto: select_font_face( self.font_name, self.slant, ... )
\* and set_font_size( self.size ), unless the resolution r raised.
select_resolved(self, ctx, r) ==
  IF r.raised
  THEN [raised |-> TRUE, self |-> self, ctx |-> ctx, st |-> r.st]
  ELSE [raised |-> FALSE,
        self |-> assign_font_name(self, r.font_name),
        ctx |-> set_font_size(select_font_face(ctx, r.font_name, self.slant),
                              self.size),
        st |-> r.st]

\* A variant of loadInto that also stores font_extents() of the context it
\* is handed as the Font's metrics.
loadInto_measuring(self, ctx, st) ==
  select_resolved([self EXCEPT !.metrics = font_extents(ctx)], ctx,
                  resolve(self, st))

\* Font.loadInto(cairoContext): resolution, then select_font_face and
\* set_font_size on the given context.  An exception leaves both the Font
\* and the context as they were.
loadInto(self, ctx, st) == select_resolved(self, ctx, resolve(self, st))

\* ------------------------------------------------------------ memoization
\* enso.utils.memoize.memoized: a cache keyed by the call's arguments; a
\* call that raises stores nothing.
memoized_hit(cache, args) == args \in DOMAIN cache

memoized_store(cache, args, value) ==
  [a \in DOMAIN cache \cup {args} |-> IF a = args THEN value ELSE cache[a]]

\* ------------------------------------------------------------------- Font
\* cairo.FONT_SLANT_ITALIC / cairo.FONT_SLANT_NORMAL
slant_of(isItalic) == IF isItalic THEN "ITALIC" ELSE "NORMAL"

\* The metrics attributes before Font.__init__ has assigned them.
NoMetrics ==
  [ascent |-> None, descent |-> None, height |-> None, maxXAdvance |-> None,
   maxYAdvance |-> None]

\* The attribute assignments that open Font.__init__.  The metrics are
\* assigned later; looked_up records, for the properties, the identifiers
\* the construction looked up in the registry, and built_at the epoch.
new_font(name, size, isItalic) ==
  [name |-> name, size |-> size, isItalic |-> isItalic, font_name |-> None,
   slant |-> slant_of(isItalic), cairoContext |-> 0,
   metrics |-> NoMetrics, looked_up |-> <<>>, built_at |-> epoch]

\* A variant of shared_context_after that makes a context for every Font.
shared_context_always_new(ctxs, shared) ==
  [ctxs |-> Append(ctxs, NewContext), shared |-> Len(ctxs) + 1]

\* "if not Font._cairoContext:" creates the shared context on first use.
shared_context_after(ctxs, shared) ==
  IF shared = 0
  THEN [ctxs |-> Append(ctxs, NewContext), shared |-> Len(ctxs) + 1]
  ELSE [ctxs |-> ctxs, shared |-> shared]

\* The five font-wide metrics are stored from font_extents().
with_metrics(self, ext) == [self EXCEPT !.metrics = ext]

\* The end of Font.__init__ after loadInto (li) has run on the saved shared
\* context: the metrics and restore(), unless loadInto raised.
measured(sc, li) ==
  IF li.raised
  THEN [raised |-> TRUE, self |-> li.self, shared |-> sc.shared,
        ctxs |-> [sc.ctxs EXCEPT ![sc.shared] = li.ctx], st |-> li.st]
  ELSE [raised |-> FALSE,
        self |-> [with_metrics(li.self, font_extents(li.ctx))
                    EXCEPT !.looked_up = li.st.lookups],
        shared |-> sc.shared,
        ctxs |-> [sc.ctxs EXCEPT ![sc.shared] = restore(li.ctx)],
        st |-> li.st]

\* Font.__init__ from "self.cairoContext = Font._cairoContext" on, with sc
\* the shared context.
constructed(self, sc, st) ==
  measured(sc, loadInto([self EXCEPT !.cairoContext = sc.shared],
                        save(sc.ctxs[sc.shared]), st))

\* Font.__init__( self, name, size, isItalic ): the object it leaves, the
\* contexts afterwards, and whether loadInto raised on the way (then
\* neither font_extents nor restore has run).
Font_init(name, size, isItalic, st) ==
  constructed(new_font(name, size, isItalic),
              shared_context_after(contexts, Font_cairoContext), st)

\* A variant of get_args that leaves the italic flag out of the key.
get_args_without_italic(name, size, isItalic) == <<name, size>>

\* The arguments Font.get is memoized on.
get_args(name, size, isItalic) == <<name, size, isItalic>>

\* The Font object a completed construction hands back: a new object.
new_object(heap) == Len(heap) + 1

NoHit == [kind |-> "none", value |-> 0]

\* logging's record of the messages of one call, added to the process's.
logged(msgs) ==
  [m \in DOMAIN log |->
     log[m] + Cardinality({i \in DOMAIN msgs : msgs[i] = m})]

\* Font.get( cls, name, size, isItalic ), found in the cache.
Font_get_hit(name, size, isItalic) ==
  \E key \in {get_args(name, size, isItalic)} :
     /\ memoized_hit(fontCache, key)
     /\ returned' = returned \cup {<<<<name, size, isItalic>>, fontCache[key]>>}
     /\ steps < MaxSteps
     /\ steps' = steps + 1
     /\ lastHit' = [kind |-> "Font", value |-> 0]
     /\ UNCHANGED <<platform, config, registry, used_font_logged,
                    Font_cairoContext, contexts, clientContext, fontCache,
                    fonts, glyphCache, glyphs, log, epoch, resolutions,
                    failures, glyphReturned, extentQueries, missSeen,
                    clientFont,
                    registryQueried, threads, overlapped>>

\* Font.get( cls, name, size, isItalic ), not in the cache: cls( name, size,
\* isItalic ) runs, and its result is stored unless it raised.
Font_get_miss(name, size, isItalic) ==
  \E key \in {get_args(name, size, isItalic)},
     r \in {Font_init(name, size, isItalic, Effects(used_font_logged))},
     id \in {new_object(fonts)} :
     /\ ~memoized_hit(fontCache, key)
     /\ steps < MaxSteps
     /\ steps' = steps + 1
     /\ resolutions' = [resolutions EXCEPT ![<<name, size, isItalic>>] = @ + 1]
     /\ used_font_logged' = r.st.flag
     /\ log' = logged(r.st.msgs)
     /\ missSeen' = (missSeen \/ r.st.missed)
     /\ registryQueried' = (registryQueried \/ r.st.lookups # <<>>)
     /\ Font_cairoContext' = r.shared
     /\ contexts' = r.ctxs
     /\ IF r.raised
        THEN /\ failures' = failures + 1
             /\ UNCHANGED <<fontCache, fonts, returned>>
        ELSE /\ fonts' = Append(fonts, r.self)
             /\ fontCache' = memoized_store(fontCache, key, id)
             /\ returned' = returned \cup {<<<<name, size, isItalic>>, id>>}
             /\ UNCHANGED failures
     /\ UNCHANGED <<platform, config, registry, clientContext, glyphCache,
                    glyphs, epoch, glyphReturned, extentQueries, lastHit,
                    clientFont,
                    threads, overlapped>>

\* ------------------------------------------------------------- FontGlyph
\* char.encode("UTF-8"): the bytes of the character.
encode_utf8(char) == IF char = "a" THEN <<97>> ELSE <<195, 169>>

\* A variant of new_glyph whose xMax lies the width to the left of xBearing.
new_glyph_mirrored(char, font, ext, gstate) ==
  [charAsUtf8 |-> encode_utf8(char), char |-> char, font |-> font,
   xMin |-> ext[1],
   xMax |-> ext[1] - ext[3],
   yMin |-> (-ext[2]) + ext[4],
   yMax |-> -ext[2],
   advance |-> ext[5],
   extents |-> ext, measured_with |-> gstate, built_at |-> epoch]

\* The attribute assignments of FontGlyph.__init__ from the backend's
\* (xBearing, yBearing, width, height, xAdvance, yAdvance); extents,
\* measured_with and built_at record, for the properties, the backend's
\* answer, the font state it was taken in and the epoch.
new_glyph(char, font, ext, gstate) ==
  [charAsUtf8 |-> encode_utf8(char), char |-> char, font |-> font,
   xMin |-> ext[1],
   xMax |-> ext[1] + ext[3],
   yMin |-> (-ext[2]) + ext[4],
   yMax |-> -ext[2],
   advance |-> ext[5],
   extents |-> ext, measured_with |-> gstate, built_at |-> epoch]

\* The end of FontGlyph.__init__ after loadInto (li) has run on the saved
\* context: the glyph's attributes and restore(), unless loadInto raised.
glyph_measured(char, f, ext, li) ==
  [raised |-> li.raised, font |-> li.self,
   ctx |-> IF li.raised THEN li.ctx ELSE restore(li.ctx),
   glyph |-> new_glyph(char, f, ext, GState(li.ctx)), st |-> li.st]

\* FontGlyph.__init__( self, char, font, cairoContext ) with ext the answer
\* of cairoContext.text_extents( self.charAsUtf8 ).
FontGlyph_init(char, f, ctx, ext, st) ==
  glyph_measured(char, f, ext, loadInto(fonts[f], save(ctx), st))

\* A variant of getGlyph_args that leaves the character out of the key.
getGlyph_args_without_char(self, char) == <<self>>

\* The arguments Font.getGlyph is memoized on.
getGlyph_args(self, char) == <<self, char>>

\* Font.getGlyph( self, char ), found in the cache.
getGlyph_hit(f, char) ==
  /\ memoized_hit(glyphCache, getGlyph_args(f, char))
  /\ glyphReturned' =
       glyphReturned \cup {<<f, char, glyphCache[getGlyph_args(f, char)]>>}
  /\ steps < MaxSteps
  /\ steps' = steps + 1
  /\ lastHit' = [kind |-> "FontGlyph", value |-> 0]
  /\ UNCHANGED <<platform, config, registry, used_font_logged,
                 Font_cairoContext, contexts, clientContext, fontCache, fonts,
                 glyphCache, glyphs, log, epoch, resolutions, failures,
                 returned, extentQueries, missSeen, clientFont,
                 registryQueried, threads, overlapped>>

\* Font.getGlyph( self, char ), not in the cache:
\* FontGlyph( char, self, self.cairoContext ) runs and its result is stored.
getGlyph_miss(f, char, ext) ==
  \E c \in {fonts[f].cairoContext}, id \in {new_object(glyphs)},
     r \in {FontGlyph_init(char, f, contexts[fonts[f].cairoContext], ext,
                           Effects(used_font_logged))} :
     /\ ~memoized_hit(glyphCache, getGlyph_args(f, char))
     /\ steps < MaxSteps
     /\ steps' = steps + 1
     /\ used_font_logged' = r.st.flag
     /\ log' = logged(r.st.msgs)
     /\ missSeen' = (missSeen \/ r.st.missed)
     /\ registryQueried' = (registryQueried \/ r.st.lookups # <<>>)
     /\ contexts' = [contexts EXCEPT ![c] = r.ctx]
     /\ fonts' = [fonts EXCEPT ![f] = r.font]
     /\ IF r.raised
        THEN UNCHANGED <<glyphCache, glyphs, glyphReturned, extentQueries>>
        ELSE /\ glyphs' = Append(glyphs, r.glyph)
             /\ glyphCache' =
                  memoized_store(glyphCache, getGlyph_args(f, char), id)
             /\ glyphReturned' = glyphReturned \cup {<<f, char, id>>}
             /\ extentQueries' = [extentQueries EXCEPT ![<<f, char>>] = @ + 1]
     /\ UNCHANGED <<platform, config, registry, Font_cairoContext,
                    clientContext, fontCache, epoch, resolutions, failures,
                    returned, lastHit, clientFont,
                    threads, overlapped>>

\* A variant of kerning_distance that kerns pairs of different characters.
kerning_distance_by_pair(self, charLeft, charRight) ==
  IF charLeft = charRight THEN 0 ELSE 1

\* Font.getKerningDistance( self, charLeft, charRight ): the value returned,
\* 0.0.
kerning_distance(self, charLeft, charRight) == 0

\* A call of getKerningDistance; it is served without any object being made.
getKerningDistance(f, charLeft, charRight) ==
  /\ steps < MaxSteps
  /\ steps' = steps + 1
  /\ lastHit' = [kind |-> "getKerningDistance",
                 value |-> kerning_distance(fonts[f], charLeft, charRight)]
  /\ UNCHANGED <<platform, config, registry, used_font_logged,
                 Font_cairoContext, contexts, clientContext, fontCache, fonts,
                 glyphCache, glyphs, log, epoch, resolutions, failures,
                 returned, glyphReturned, extentQueries, missSeen, clientFont,
                 registryQueried, threads, overlapped>>

\* A caller's font.loadInto( cairoContext ) on a context of its own.
Font_loadInto(f) ==
  \E r \in {loadInto(fonts[f], clientContext, Effects(used_font_logged))} :
     /\ clientFont # f
     /\ steps < MaxSteps
     /\ steps' = steps + 1
     /\ used_font_logged' = r.st.flag
     /\ log' = logged(r.st.msgs)
     /\ missSeen' = (missSeen \/ r.st.missed)
     /\ registryQueried' = (registryQueried \/ r.st.lookups # <<>>)
     /\ clientContext' = r.ctx
     /\ clientFont' = IF r.raised THEN clientFont ELSE f
     /\ fonts' = [fonts EXCEPT ![f] = r.self]
     /\ UNCHANGED <<platform, config, registry, Font_cairoContext, contexts,
                    fontCache, glyphCache, glyphs, epoch, resolutions,
                    failures, returned, glyphReturned, extentQueries, lastHit,
                    threads, overlapped>>

\* ------------------------------------------------------------ environment
\* The user's configuration assigns or removes enso.config.FONT_NAME.
SetFontName(cfg) ==
  /\ steps < MaxSteps
  /\ cfg # config
  /\ config' = cfg
  /\ steps' = steps + 1
  /\ epoch' = epoch + 1
  /\ UNCHANGED <<platform, registry, used_font_logged, Font_cairoContext,
                 contexts, clientContext, fontCache, fonts, glyphCache, glyphs,
                 log, resolutions, failures, returned, glyphReturned,
                 extentQueries, lastHit, missSeen, clientFont,
                 registryQueried, threads, overlapped>>

\* A font is installed into or removed from the platform registry.
ChangeRegistry(font_id) ==
  /\ steps < MaxSteps
  /\ registry' = IF font_id \in registry
                 THEN registry \ {font_id} ELSE registry \cup {font_id}
  /\ steps' = steps + 1
  /\ epoch' = epoch + 1
  /\ UNCHANGED <<platform, config, used_font_logged, Font_cairoContext,
                 contexts, clientContext, fontCache, fonts, glyphCache, glyphs,
                 log, resolutions, failures, returned, glyphReturned,
                 extentQueries, lastHit, missSeen, clientFont,
                 registryQueried, threads, overlapped>>

\* ---------------------------------------------------------------- threads
\* The threads that may call into this layer, and a thread that is not
\* inside Font.__init__.
Threads == {"main", "worker"}
Idle == [pc |-> "idle"]

\* A variant of sees_no_context that finds no context whatever the class
\* attribute holds.
sees_no_context_always(shared) == TRUE

\* "if not Font._cairoContext:" as a thread evaluates it.
sees_no_context(shared) == shared = 0

\* Thread t calls Font.get( name, size, isItalic ), misses the cache and
\* enters Font.__init__: the attribute assignments up to the slant.
Thread_enter(t, name, size, isItalic) ==
  /\ threads[t].pc = "idle"
  /\ steps < MaxSteps
  /\ ~memoized_hit(fontCache, get_args(name, size, isItalic))
  /\ steps' = steps + 1
  /\ threads' = [threads EXCEPT
                   ![t] = [pc |-> "check", self |-> new_font(name, size, isItalic)]]
  /\ overlapped' =
       (overlapped \/ \E u \in Threads \ {t} : threads[u].pc # "idle")
  /\ UNCHANGED <<platform, config, registry, used_font_logged,
                 Font_cairoContext, contexts, clientContext, fontCache, fonts,
                 glyphCache, glyphs, log, epoch, resolutions, failures,
                 returned, glyphReturned, extentQueries, lastHit, missSeen,
                 clientFont, registryQueried>>

\* Thread t evaluates "if not Font._cairoContext:".
Thread_check(t) ==
  /\ threads[t].pc = "check"
  /\ threads' = [threads EXCEPT
                   ![t].pc = IF sees_no_context(Font_cairoContext)
                             THEN "create" ELSE "bind"]
  /\ UNCHANGED <<platform, config, registry, used_font_logged,
                 Font_cairoContext, contexts, clientContext, fontCache, fonts,
                 glyphCache, glyphs, log, steps, epoch, resolutions, failures,
                 returned, glyphReturned, extentQueries, lastHit, missSeen,
                 clientFont, registryQueried, overlapped>>

\* Thread t makes the dummy surface and a context on it, and assigns the
\* context to Font._cairoContext.
Thread_create(t) ==
  /\ threads[t].pc = "create"
  /\ contexts' = Append(contexts, NewContext)
  /\ Font_cairoContext' = Len(contexts) + 1
  /\ threads' = [threads EXCEPT ![t].pc = "bind"]
  /\ UNCHANGED <<platform, config, registry, used_font_logged, clientContext,
                 fontCache, fonts, glyphCache, glyphs, log, steps, epoch,
                 resolutions, failures, returned, glyphReturned, extentQueries,
                 lastHit, missSeen, clientFont, registryQueried, overlapped>>

\* Thread t runs "self.cairoContext = Font._cairoContext".
Thread_bind(t) ==
  /\ threads[t].pc = "bind"
  /\ threads' = [threads EXCEPT ![t].pc = "load",
                                ![t].self.cairoContext = Font_cairoContext]
  /\ UNCHANGED <<platform, config, registry, used_font_logged,
                 Font_cairoContext, contexts, clientContext, fontCache, fonts,
                 glyphCache, glyphs, log, steps, epoch, resolutions, failures,
                 returned, glyphReturned, extentQueries, lastHit, missSeen,
                 clientFont, registryQueried, overlapped>>

\* Thread t runs the rest of Font.__init__ on the context it bound (save,
\* loadInto, font_extents, restore) and Font.get stores and returns the
\* Font, unless loadInto raised.
Thread_finish(t) ==
  /\ threads[t].pc = "load"
  /\ \E self \in {threads[t].self}, id \in {new_object(fonts)} :
      \E key \in {get_args(self.name, self.size, self.isItalic)},
         r \in {constructed(self,
                            [ctxs |-> contexts, shared |-> self.cairoContext],
                            Effects(used_font_logged))} :
        /\ threads' = [threads EXCEPT ![t] = Idle]
        /\ resolutions' =
             [resolutions EXCEPT
                ![<<self.name, self.size, self.isItalic>>] = @ + 1]
        /\ used_font_logged' = r.st.flag
        /\ log' = logged(r.st.msgs)
        /\ missSeen' = (missSeen \/ r.st.missed)
        /\ registryQueried' = (registryQueried \/ r.st.lookups # <<>>)
        /\ contexts' = r.ctxs
        /\ IF r.raised
           THEN /\ failures' = failures + 1
                /\ UNCHANGED <<fontCache, fonts, returned>>
           ELSE /\ fonts' = Append(fonts, r.self)
                /\ fontCache' = memoized_store(fontCache, key, id)
                /\ returned' =
                     returned
                     \cup {<<<<self.name, self.size, self.isItalic>>, id>>}
                /\ UNCHANGED failures
        /\ UNCHANGED <<platform, config, registry, Font_cairoContext,
                       clientContext, glyphCache, glyphs, steps, epoch,
                       glyphReturned, extentQueries, lastHit, clientFont,
                       overlapped>>

\* ------------------------------------------------------------ specification
LogMessages ==
  {"error: There is no FONT_NAME setting", "info: Font used",
   "error: Specified font was not found",
   "warning: Using default 'Arial.ttf' font"}

\* The process as the first Font is requested: the platform it runs on, the
\* configuration the user has loaded and the fonts the system has installed
\* are any of their shapes; nothing has been constructed or logged.
Init ==
  /\ platform \in Platforms
  /\ config \in Configs
  /\ registry \in SUBSET ConfigNames
  /\ used_font_logged = FALSE
  /\ Font_cairoContext = 0
  /\ contexts = <<>>
  /\ clientContext = NewContext
  /\ fontCache = [k \in {} |-> 0]
  /\ fonts = <<>>
  /\ glyphCache = [k \in {} |-> 0]
  /\ glyphs = <<>>
  /\ log = [m \in LogMessages |-> 0]
  /\ steps = 0
  /\ epoch = 0
  /\ resolutions = [k \in Requests |-> 0]
  /\ failures = 0
  /\ returned = {}
  /\ glyphReturned = {}
  /\ extentQueries = [p \in (1..MaxSteps) \X Chars |-> 0]
  /\ lastHit = NoHit
  /\ missSeen = FALSE
  /\ clientFont = 0
  /\ registryQueried = FALSE
  /\ threads = [t \in Threads |-> Idle]
  /\ overlapped = FALSE

Next ==
  \/ \E req \in Requests : Font_get_hit(req[1], req[2], req[3])
  \/ \E req \in Requests : Font_get_miss(req[1], req[2], req[3])
  \/ \E f \in DOMAIN fonts, char \in Chars : getGlyph_hit(f, char)
  \/ \E f \in DOMAIN fonts, char \in Chars, ext \in BackendExtents :
       getGlyph_miss(f, char, ext)
  \/ \E f \in DOMAIN fonts, charLeft \in Chars, charRight \in Chars :
       getKerningDistance(f, charLeft, charRight)
  \/ \E f \in DOMAIN fonts : Font_loadInto(f)
  \/ \E cfg \in Configs : SetFontName(cfg)
  \/ \E font_id \in ConfigNames : ChangeRegistry(font_id)

Spec == Init /\ [][Next]_vars

\* Font constructions by threads that nothing synchronizes: each statement
\* group of Font.__init__ up to the binding of the context is a step of its
\* own, and the steps of different threads interleave freely.  The rest of
\* __init__ assigns neither Font._cairoContext nor self.cairoContext and is
\* one step.
RaceNext ==
  \/ \E t \in Threads, req \in Requests :
       Thread_enter(t, req[1], req[2], req[3])
  \/ \E t \in Threads : Thread_check(t)
  \/ \E t \in Threads : Thread_create(t)
  \/ \E t \in Threads : Thread_bind(t)
  \/ \E t \in Threads : Thread_finish(t)

RaceSpec == Init /\ [][RaceNext]_vars

\* ------------------------------------------------------------- properties
\* The fallback chain as the design states it, independent of the code's
\* control flow: the resolution of one identifier, the terminal default, and
\* the first candidate that resolved.
Resolution(font_id) ==
  IF platform = "win32"
  THEN IF font_id \in registry THEN FilePathOf(font_id) ELSE None
  ELSE font_id

TerminalDefault == IF platform = "win32" THEN ArialPath ELSE "Helvetica"

ChainCandidates(isItalic) ==
  (IF isItalic /\ has_key(config, "italic")
   THEN <<Resolution(config.map["italic"])>> ELSE <<>>)
  \o (IF has_key(config, "normal")
      THEN <<Resolution(config.map["normal"])>> ELSE <<>>)
  \o <<TerminalDefault>>

FirstAvailable(candidates) ==
  candidates[CHOOSE i \in DOMAIN candidates :
               /\ candidates[i] # None
               /\ \A j \in 1..(i - 1) : candidates[j] = None]

\* The Font was constructed under the configuration and registry of now.
Current(f) == fonts[f].built_at = epoch

OnlyNormal == config.has /\ DOMAIN config.map = {"normal"}
Unconfigured == ~config.has \/ DOMAIN config.map = {}

Requested == {k \in Requests : resolutions[k] > 0}
TotalLogged ==
  log["error: There is no FONT_NAME setting"] + log["info: Font used"]
  + log["error: Specified font was not found"]
  + log["warning: Using default 'Arial.ttf' font"]

\* C1 (flyweight uniqueness): among all Font.get calls that have returned,
\* two calls were made with equal (name, size, isItalic) exactly when they
\* returned the identical Font object, and the object carries the request.
C1_FlyweightUniqueness ==
  \A r1 \in returned, r2 \in returned :
    /\ (r1[1] = r2[1]) <=> (r1[2] = r2[2])
    /\ r1[2] \in DOMAIN fonts
    /\ <<fonts[r1[2]].name, fonts[r1[2]].size, fonts[r1[2]].isItalic>> = r1[1]

\* C1 witness: a request was served again from the pool, and another request
\* has returned a second object.
C1_Witness ==
  /\ lastHit.kind = "Font"
  /\ Cardinality(returned) >= 2

\* C2 (get never raises because of configuration): no Font.get call has
\* ended in an exception, and every Font handed out has a non-null
\* font_name.
C2_GetNeverRaises ==
  /\ failures = 0
  /\ \A f \in DOMAIN fonts : fonts[f].font_name # None

\* C3 (fallback chain order): a Font constructed under the present
\* configuration and registry has as font_name the first available of the
\* "italic" resolution (italic requests only), the "normal" resolution and
\* the platform default; a request that is not italic looked up nothing but
\* the "normal" entry.
C3_FallbackChainOrder ==
  \A f \in DOMAIN fonts :
    Current(f) =>
      /\ fonts[f].font_name = FirstAvailable(ChainCandidates(fonts[f].isItalic))
      /\ ~fonts[f].isItalic =>
           \A i \in DOMAIN fonts[f].looked_up :
             /\ has_key(config, "normal")
             /\ fonts[f].looked_up[i] = config.map["normal"]
             /\ i = 1

\* C3 witness: an italic Font whose configured "italic" entry did not
\* resolve and which got the resolution of the "normal" entry.
C3_Witness ==
  \E f \in DOMAIN fonts :
    /\ Current(f) /\ fonts[f].isItalic
    /\ has_key(config, "italic") /\ has_key(config, "normal")
    /\ Resolution(config.map["italic"]) = None
    /\ Resolution(config.map["normal"]) # None
    /\ fonts[f].font_name = Resolution(config.map["normal"])

\* C4 as stated (fallback determinism): with only a "normal" entry, an
\* italic and a non-italic Font constructed under the same configuration and
\* registry have the same font_name, namely the resolution of the "normal"
\* entry.
C4_FallbackIsNormalResolution ==
  OnlyNormal =>
    \A f \in DOMAIN fonts, g \in DOMAIN fonts :
      (Current(f) /\ Current(g) /\ fonts[f].isItalic /\ ~fonts[g].isItalic) =>
        /\ fonts[f].font_name = fonts[g].font_name
        /\ fonts[f].font_name = Resolution(config.map["normal"])

\* C4 amended: ... the same font_name, namely the resolution of the "normal"
\* entry when it resolves and the platform default when the registry has no
\* entry for it.
C4_FallbackDeterminism ==
  OnlyNormal =>
    \A f \in DOMAIN fonts, g \in DOMAIN fonts :
      (Current(f) /\ Current(g) /\ fonts[f].isItalic /\ ~fonts[g].isItalic) =>
        /\ fonts[f].font_name = fonts[g].font_name
        /\ fonts[f].font_name =
             IF Resolution(config.map["normal"]) # None
             THEN Resolution(config.map["normal"]) ELSE TerminalDefault

\* C4 witness: both Fonts exist under a configuration with only "normal".
C4_Witness ==
  /\ OnlyNormal
  /\ \E f \in DOMAIN fonts, g \in DOMAIN fonts :
       Current(f) /\ Current(g) /\ fonts[f].isItalic /\ ~fonts[g].isItalic

\* C5 (glyph memoization): among all getGlyph calls that have returned, two
\* calls were made on the same Font with the same character exactly when
\* they returned the identical FontGlyph, and the backend's text_extents
\* has run once for each (font, character) that was asked for.
C5_GlyphMemoization ==
  /\ \A g1 \in glyphReturned, g2 \in glyphReturned :
       (g1[1] = g2[1] /\ g1[2] = g2[2]) <=> (g1[3] = g2[3])
  /\ \A g \in glyphReturned :
       /\ extentQueries[<<g[1], g[2]>>] = 1
       /\ glyphs[g[3]].font = g[1] /\ glyphs[g[3]].char = g[2]
  /\ \A p \in DOMAIN extentQueries : extentQueries[p] <= 1

\* C5 witness: the latest call was a getGlyph served again from the cache,
\* for a (font, character) whose extents were measured once.
C5_Witness ==
  /\ lastHit.kind = "FontGlyph"
  /\ \E g \in glyphReturned :
       extentQueries[<<g[1], g[2]>>] = 1 /\ g[3] \in DOMAIN glyphs

\* C6 (frozen resolution): no step changes the font_name of a constructed
\* Font, and every loadInto of it (for a glyph, or by a caller on its own
\* context) has selected exactly that font_name, whatever the configuration
\* and the registry have become.
C6_FrozenResolution ==
  [][/\ \A f \in DOMAIN fonts :
          f \in DOMAIN fonts' /\ fonts'[f].font_name = fonts[f].font_name
     /\ \A g \in DOMAIN glyphs' :
          glyphs'[g].measured_with.face = fonts'[glyphs'[g].font].font_name
     /\ clientFont' # 0 => clientContext'.face = fonts'[clientFont'].font_name
    ]_vars

\* C6 witness: a glyph was built for a Font after the configuration or the
\* registry changed in a way that resolves its request differently now.
C6_Witness ==
  \E g \in DOMAIN glyphs :
    /\ glyphs[g].built_at = epoch
    /\ fonts[glyphs[g].font].built_at < epoch
    /\ fonts[glyphs[g].font].font_name
         # FirstAvailable(ChainCandidates(fonts[glyphs[g].font].isItalic))

\* C7 (no re-resolution): the font-name resolution has run exactly once for
\* every request made so far, however often the request was repeated.
C7_ResolvedOncePerKey ==
  \A k \in Requested : resolutions[k] = 1

\* C8 (single diagnostic for missing configuration): when no font-name
\* settings are configured and Font.get has been called, exactly one message
\* has been logged in total.
C8_SingleDiagnostic ==
  (epoch = 0 /\ Unconfigured /\ Requested # {}) => TotalLogged = 1

\* C9 (resolution-miss diagnostic once per process): on the registry-backed
\* branch, once a configured font name was not found in the registry, the
\* "specified font was not found" error has been logged exactly once.
C9_MissLoggedOnce ==
  (platform = "win32" /\ missSeen) =>
    log["error: Specified font was not found"] = 1

\* C10 (metrics immutability): no step changes the metrics of a constructed
\* Font.
C10_MetricsImmutable ==
  [][\A f \in DOMAIN fonts :
       f \in DOMAIN fonts' /\ fonts'[f].metrics = fonts[f].metrics]_vars

\* C10 witness: after a Font was constructed, a glyph of it was built and a
\* further Font was constructed.
C10_Witness ==
  \E g \in DOMAIN glyphs : glyphs[g].font < Len(fonts)

\* C11 (single shared backend context): with the calls made one after the
\* other, at most one backend context has been created, it is the one
\* Font._cairoContext names, and every Font's cairoContext is that context.
C11_SingleSharedContext ==
  /\ Len(contexts) <= 1
  /\ Font_cairoContext = Len(contexts)
  /\ \A f \in DOMAIN fonts :
       fonts[f].cairoContext = Font_cairoContext /\ Font_cairoContext # 0

\* C11 witness: three Fonts were constructed and one context exists.
C11_Witness ==
  /\ Len(fonts) >= 3
  /\ Len(contexts) = 1

\* The fields of the backend's answer to text_extents.
xBearing(ext) == ext[1]
yBearing(ext) == ext[2]
width(ext) == ext[3]
height(ext) == ext[4]
xAdvance(ext) == ext[5]

\* C12 (glyph horizontal box): every glyph whose backend extents have
\* width >= 0 and xAdvance >= 0 has xMin <= xMax and advance >= 0, with
\* xMin = xBearing, xMax = xBearing + width and advance = xAdvance.
C12_GlyphHorizontalBox ==
  \A g \in DOMAIN glyphs :
    (width(glyphs[g].extents) >= 0 /\ xAdvance(glyphs[g].extents) >= 0) =>
      /\ glyphs[g].xMin <= glyphs[g].xMax
      /\ glyphs[g].advance >= 0
      /\ glyphs[g].xMin = xBearing(glyphs[g].extents)
      /\ glyphs[g].xMax =
           xBearing(glyphs[g].extents) + width(glyphs[g].extents)
      /\ glyphs[g].advance = xAdvance(glyphs[g].extents)

\* C12 witness: a glyph of positive width and advance with a negative left
\* bearing was built, and a glyph of zero width.
C12_Witness ==
  /\ \E g \in DOMAIN glyphs :
       /\ width(glyphs[g].extents) > 0 /\ xAdvance(glyphs[g].extents) > 0
       /\ xBearing(glyphs[g].extents) < 0
  /\ \E g \in DOMAIN glyphs : width(glyphs[g].extents) = 0

\* C13 (kerning stub): every getKerningDistance call returns 0, whatever the
\* Font and the two characters, and the step that serves it leaves the
\* Fonts, both caches, the backend contexts, the log-once flag and the log
\* as they are.
C13_KerningStub ==
  [][/\ lastHit'.kind = "getKerningDistance" => lastHit'.value = 0
     /\ (lastHit'.kind = "getKerningDistance"
         /\ lastHit.kind # "getKerningDistance") =>
          UNCHANGED <<fonts, fontCache, glyphCache, glyphs, contexts,
                      Font_cairoContext, clientContext, used_font_logged, log>>
    ]_vars

\* C13 witness: getKerningDistance was the latest call, on a Font that holds
\* a glyph in its cache.
C13_Witness ==
  /\ lastHit.kind = "getKerningDistance"
  /\ glyphs # <<>>

\* C14 (glyph vertical box): every glyph whose backend extents have
\* height >= 0 has yMin <= yMax, with yMax - yMin equal to the backend
\* height.
C14_GlyphVerticalBox ==
  \A g \in DOMAIN glyphs :
    height(glyphs[g].extents) >= 0 =>
      /\ glyphs[g].yMin <= glyphs[g].yMax
      /\ glyphs[g].yMax - glyphs[g].yMin = height(glyphs[g].extents)

\* The identifier the configuration names for a request, as it is written
\* there, or "Helvetica" when it names none.
Configured(isItalic) ==
  IF isItalic /\ has_key(config, "italic") THEN config.map["italic"]
  ELSE IF has_key(config, "normal") THEN config.map["normal"]
  ELSE "Helvetica"

\* C15 (identity resolution off Windows): on a platform other than win32
\* the registry has never been queried and the log-once flag never set,
\* whatever calls were made; every Font's font_name is a configured string
\* or "Helvetica", and for a Font constructed under the present
\* configuration it is the string configured for its request, installed or
\* not.
C15_IdentityResolution ==
  platform # "win32" =>
    /\ ~registryQueried
    /\ ~used_font_logged
    /\ \A f \in DOMAIN fonts :
         /\ fonts[f].font_name \in ConfigNames \cup {"Helvetica"}
         /\ Current(f) => fonts[f].font_name = Configured(fonts[f].isItalic)

\* C15 witness: off Windows, a Font carries a configured name the registry
\* does not know, and a glyph of it was built.
C15_Witness ==
  /\ platform # "win32"
  /\ \E g \in DOMAIN glyphs :
       /\ Current(glyphs[g].font)
       /\ fonts[glyphs[g].font].font_name \in ConfigNames \ registry

\* C16 (balanced save/restore): every step, and so every Font and FontGlyph
\* construction on every exit path, leaves each backend context with the
\* save/restore depth, font face, slant and size it had before the step; a
\* context created by the step is left as it was created.
C16_BalancedSaveRestore ==
  [][\A c \in DOMAIN contexts' :
       contexts'[c] = IF c \in DOMAIN contexts THEN contexts[c] ELSE NewContext
    ]_vars

\* C17 (the identifier does not depend on the requested name or size): two
\* Fonts constructed under the same configuration and registry with the
\* same isItalic have the same font_name, whatever their name and size, and
\* the slant of every Font is ITALIC exactly when it is italic.
C17_NameSizeIndependence ==
  /\ \A f \in DOMAIN fonts, g \in DOMAIN fonts :
       (fonts[f].built_at = fonts[g].built_at
        /\ fonts[f].isItalic = fonts[g].isItalic) =>
         fonts[f].font_name = fonts[g].font_name
  /\ \A f \in DOMAIN fonts :
       (fonts[f].slant = "ITALIC") <=> fonts[f].isItalic

\* C17 witness: two italic Fonts of different sizes exist under a
\* configuration with only a "normal" entry, which resolves; they fell back
\* to it and are slanted.
C17_Witness ==
  /\ OnlyNormal /\ Resolution(config.map["normal"]) # None
  /\ \E f \in DOMAIN fonts, g \in DOMAIN fonts :
       /\ Current(f) /\ Current(g)
       /\ fonts[f].isItalic /\ fonts[g].isItalic
       /\ fonts[f].size # fonts[g].size
       /\ fonts[f].slant = "ITALIC"
       /\ fonts[f].font_name = Resolution(config.map["normal"])

\* C18 (unresolved first-access race): as long as no construction began
\* while another was under way, at most one backend context exists and
\* every Font holds it; two contexts, or two Fonts that hold different
\* contexts, exist only after constructions overlapped.
C18_SerializedSingleContext ==
  ~overlapped =>
    /\ Len(contexts) <= 1
    /\ \A f \in DOMAIN fonts : fonts[f].cairoContext = Font_cairoContext

\* C18 witness: two backend contexts have been created and two Fonts that
\* completed their construction hold different ones.
C18_Witness ==
  /\ Len(contexts) = 2
  /\ \E f \in DOMAIN fonts, g \in DOMAIN fonts :
       fonts[f].cairoContext # fonts[g].cairoContext
====
